---- MODULE Spec2Model ----
(***************************************************************************)
(* Model of rustwide's workspace lifecycle (src/workspace.rs):             *)
(* WorkspaceBuilder::init racing on one root under the init file lock,     *)
(* and the Workspace operations build_dir, purge_all_build_dirs and        *)
(* installed_toolchains acting on the filesystem below the root (Spec);    *)
(* one caller configuring the builder's image and timeouts, with the       *)
(* Commands created from the Workspace run minute by minute (CmdSpec).     *)
(*                                                                         *)
(* Paths are sequences of components; an absolute path starts with "/".    *)
(* The filesystem is the set of (normalised) paths that exist.             *)
(***************************************************************************)
EXTENDS Integers, Sequences, FiniteSets, TLC

VARIABLES
    pc,          \* per caller: position inside WorkspaceBuilder::init
    builder,     \* per caller: the WorkspaceBuilder's fields
    result,      \* per caller: the Result of its init call (of the closure while in file_lock)
    ws,          \* per caller: the Workspace it owns (NoWs before a successful init)
    installRes,  \* per caller: outcome of tools::install in the current call
    primeRes,    \* per caller: outcome of the priming command in the current call
    locks,       \* advisory file locks held: set of [path, owner]
    fs,          \* the filesystem: set of existing paths
    installRuns, \* number of times tools::install was run
    primeRuns,   \* number of times the priming command was run
    dirs,        \* BuildDirectory handles derived so far: set of [name, inner]
    listed,      \* last result of installed_toolchains
    purgeRes,    \* result of the last purge_all_build_dirs
    asked,       \* per caller: the last value passed to each timeout setter
    cmd,         \* the Command being built or run (NoCmd when there is none)
    cstate,      \* where Command::run stands
    now,         \* time elapsed since the command's process was spawned
    last,        \* time of the last line of output (of the spawn before any)
    procAlive,   \* whether the command's process (or container) exists
    outcome      \* what Command::run returned

vars == <<pc, builder, result, ws, installRes, primeRes, locks, fs,
          installRuns, primeRuns, dirs, listed, purgeRes,
          asked, cmd, cstate, now, last, procAlive, outcome>>

runState == <<cstate, now, last, procAlive, outcome>>

cmdVars == <<asked, cmd, runState>>

----------------------------------------------------------------------------
(* Bounds *)

NumProcs == 2

Procs == 1..NumProcs

\* the longest timeout a caller configures, in minutes
MaxT == 2

\* how long a command is followed, in minutes
MaxTime == 16

----------------------------------------------------------------------------
(* Paths: std::path semantics *)

Root == <<"/", "ws">>

IsAbsolute(p) == Len(p) > 0 /\ p[1] = "/"

\* PathBuf::join: an absolute argument replaces the base
Join(base, rel) == IF IsAbsolute(rel) THEN rel ELSE base \o rel

\* the location a path refers to: "." dropped, ".." resolved ("/.." is "/")
RECURSIVE Resolve(_, _)
Resolve(acc, p) ==
    IF p = <<>> THEN acc
    ELSE LET c == Head(p)
             r == Tail(p)
         IN  IF c = "." THEN Resolve(acc, r)
             ELSE IF c = ".."
                  THEN IF Len(acc) > 1 THEN Resolve(SubSeq(acc, 1, Len(acc) - 1), r)
                       ELSE Resolve(acc, r)
                  ELSE Resolve(Append(acc, c), r)

Normalize(p) == Resolve(<<>>, p)

\* q lies strictly inside directory d
Inside(q, d) == Len(q) > Len(d) /\ SubSeq(q, 1, Len(d)) = d

\* std::fs::create_dir_all: the directory and every missing ancestor
create_dir_all(files, p) ==
    files \cup {Normalize(SubSeq(p, 1, k)) : k \in 1..Len(p)}

\* std::fs::remove_dir_all: the directory and everything below it
remove_dir_all(files, d) ==
    LET n == Normalize(d) IN {q \in files : ~(q = n \/ Inside(q, n))}

----------------------------------------------------------------------------
(* Workspace path accessors *)

cargo_home(path) == Join(path, <<"cargo-home">>)

rustup_home_in_builds(path) == Join(path, <<"builds", "rustup-home">>)

rustup_home(path) == Join(path, <<"rustup-home">>)

cache_dir(path) == Join(path, <<"cache">>)

builds_dir_root(path) == path

builds_dir(path) == Join(path, <<"builds">>)

LockPathPerCaller(path, p) == Join(path, <<"lock", ToString(p)>>)

LockPath(path, p) == Join(path, <<"lock">>)

----------------------------------------------------------------------------
(* Collaborators outside workspace.rs *)

\* utils::file_lock: the lock on a path is free
LockFree(path) == \A l \in locks : l.path # path

Holds(p) == \E l \in locks : l.owner = p

\* toolchain::list_installed: recognised entries of <rustup-home>/toolchains
ToolchainEntries == {"stable", "tmp"}

Recognized(e) == e = "stable"

list_installed(files, home) ==
    {e \in ToolchainEntries : Recognized(e) /\ Join(home, <<"toolchains", e>>) \in files}

\* BuildDirectory::new + its path: <root>/builds/<name>
BuildDirPath(path, name) == Join(builds_dir(path), name)

----------------------------------------------------------------------------
(* Values *)

\* Option<Duration>, in minutes
None == [some |-> FALSE, d |-> 0]

Some(n) == [some |-> TRUE, d |-> n]

\* DEFAULT_COMMAND_TIMEOUT = Some(15 minutes)
DefaultCommandTimeout == 15

DEFAULT_COMMAND_TIMEOUT == Some(DefaultCommandTimeout)

DEFAULT_COMMAND_NO_OUTPUT_TIMEOUT == None

NoWs ==
    [path |-> <<>>, sandbox_image |-> "none",
     command_timeout |-> None, command_no_output_timeout |-> None]

NoBuilder ==
    [path |-> <<>>, user_agent |-> "none", sandbox_image |-> "None",
     command_timeout |-> None, command_no_output_timeout |-> None]

NoCmd == [kind |-> "none", timeout |-> None, no_output_timeout |-> None]

Unset == [hard |-> FALSE, nooutput |-> FALSE, hard_value |-> None, nooutput_value |-> None]

Durations == 1..MaxT

TimeoutChoices == {None} \cup {Some(n) : n \in Durations}

PrimeOutcomes == {"ok", "exit_nonzero", "spawn_failed", "timeout"}

\* names handed to build_dir: a plain name and a parent-directory component
BuildNames == {<<"a">>, <<"..">>}

Init ==
    /\ pc = [p \in Procs |-> "idle"]
    /\ builder = [p \in Procs |-> NoBuilder]
    /\ result = [p \in Procs |-> "none"]
    /\ ws = [p \in Procs |-> NoWs]
    /\ installRes = [p \in Procs |-> "none"]
    /\ primeRes = [p \in Procs |-> "none"]
    /\ locks = {}
    /\ fs = {<<"/">>}
    /\ installRuns = 0
    /\ primeRuns = 0
    /\ dirs = {}
    /\ listed = {}
    /\ purgeRes = "none"
    /\ asked = [p \in Procs |-> Unset]
    /\ cmd = NoCmd
    /\ cstate = "idle"
    /\ now = 0
    /\ last = 0
    /\ procAlive = FALSE
    /\ outcome = "none"

wsVars == <<dirs, listed, purgeRes>>

runVars == <<installRes, primeRes, installRuns, primeRuns>>

----------------------------------------------------------------------------
(* WorkspaceBuilder *)

\* WorkspaceBuilder::new
new(p, ua) ==
    /\ pc[p] = "idle"
    /\ builder' = [builder EXCEPT ![p] =
                      [path |-> Root, user_agent |-> ua, sandbox_image |-> "None",
                       command_timeout |-> DEFAULT_COMMAND_TIMEOUT,
                       command_no_output_timeout |-> DEFAULT_COMMAND_NO_OUTPUT_TIMEOUT]]
    /\ pc' = [pc EXCEPT ![p] = "builder"]
    /\ UNCHANGED <<result, ws, locks, fs, runVars, wsVars, cmdVars>>

\* WorkspaceBuilder::sandbox_image
sandbox_image(p) ==
    /\ pc[p] = "builder"
    /\ builder[p].sandbox_image = "None"
    /\ builder' = [builder EXCEPT ![p].sandbox_image = "Some"]
    /\ UNCHANGED <<pc, result, ws, locks, fs, runVars, wsVars, cmdVars>>

command_timeout_ignored(p, t) ==
    /\ pc[p] = "builder"
    /\ asked' = [asked EXCEPT ![p].hard = TRUE, ![p].hard_value = t]
    /\ UNCHANGED <<builder, pc, result, ws, locks, fs, runVars, wsVars, cmd, runState>>

\* WorkspaceBuilder::command_timeout
command_timeout(p, t) ==
    /\ pc[p] = "builder"
    /\ builder' = [builder EXCEPT ![p].command_timeout = t]
    /\ asked' = [asked EXCEPT ![p].hard = TRUE, ![p].hard_value = t]
    /\ UNCHANGED <<pc, result, ws, locks, fs, runVars, wsVars, cmd, runState>>

command_no_output_timeout_as_hard(p, t) ==
    /\ pc[p] = "builder"
    /\ builder' = [builder EXCEPT ![p].command_timeout = t]
    /\ asked' = [asked EXCEPT ![p].nooutput = TRUE, ![p].nooutput_value = t]
    /\ UNCHANGED <<pc, result, ws, locks, fs, runVars, wsVars, cmd, runState>>

\* WorkspaceBuilder::command_no_output_timeout
command_no_output_timeout(p, t) ==
    /\ pc[p] = "builder"
    /\ builder' = [builder EXCEPT ![p].command_no_output_timeout = t]
    /\ asked' = [asked EXCEPT ![p].nooutput = TRUE, ![p].nooutput_value = t]
    /\ UNCHANGED <<pc, result, ws, locks, fs, runVars, wsVars, cmd, runState>>

workspace_of_swapped(b) ==
    [path |-> b.path,
     sandbox_image |-> IF b.sandbox_image = "Some" THEN "custom" ELSE "default",
     command_timeout |-> b.command_no_output_timeout,
     command_no_output_timeout |-> b.command_timeout]

\* init, lines 110-118: the Workspace built from the builder's fields
workspace_of(b) ==
    [path |-> b.path,
     sandbox_image |-> IF b.sandbox_image = "Some" THEN "custom" ELSE "default",
     command_timeout |-> b.command_timeout,
     command_no_output_timeout |-> b.command_no_output_timeout]

\* init returns r to its caller; self (the builder) was consumed by the call
Return(p, r) ==
    /\ pc' = [pc EXCEPT ![p] = "done"]
    /\ result' = [result EXCEPT ![p] = r]
    /\ ws' = [ws EXCEPT ![p] = IF r = "Ok" THEN workspace_of(builder[p]) ELSE NoWs]
    /\ builder' = [builder EXCEPT ![p] = NoBuilder]
    /\ installRes' = [installRes EXCEPT ![p] = "none"]
    /\ primeRes' = [primeRes EXCEPT ![p] = "none"]

\* the closure passed to file_lock returns r: control goes back to file_lock
closure_return_leak(p, r) ==
    IF r = "Ok"
    THEN /\ pc' = [pc EXCEPT ![p] = "release"]
         /\ result' = [result EXCEPT ![p] = r]
    ELSE /\ pc' = [pc EXCEPT ![p] = "done"]
         /\ result' = [result EXCEPT ![p] = r]

closure_return(p, r) ==
    /\ pc' = [pc EXCEPT ![p] = "release"]
    /\ result' = [result EXCEPT ![p] = r]

\* init, line 90: create_dir_all(&self.path)?
init_create_dir(p) ==
    /\ pc[p] = "builder"
    /\ \/ /\ fs' = create_dir_all(fs, builder[p].path)
          /\ pc' = [pc EXCEPT ![p] = "open_lock"]
          /\ UNCHANGED <<result, ws, builder, installRes, primeRes>>
       \/ /\ Normalize(builder[p].path) \notin fs
          /\ Return(p, "ErrCreateDir")
          /\ UNCHANGED fs
    /\ UNCHANGED <<locks, installRuns, primeRuns, wsVars, cmdVars>>

\* file_lock: open (create) the lock file
file_lock_open(p) ==
    /\ pc[p] = "open_lock"
    /\ \/ /\ fs' = fs \cup {Normalize(LockPath(builder[p].path, p))}
          /\ pc' = [pc EXCEPT ![p] = "acquire"]
          /\ UNCHANGED <<result, ws, builder, installRes, primeRes>>
       \/ /\ Return(p, "ErrLock")
          /\ UNCHANGED fs
    /\ UNCHANGED <<locks, installRuns, primeRuns, wsVars, cmdVars>>

\* file_lock: block until the exclusive lock is granted, then run the closure
file_lock_acquire(p) ==
    /\ pc[p] = "acquire"
    /\ LockFree(LockPath(builder[p].path, p))
    /\ locks' = locks \cup {[path |-> LockPath(builder[p].path, p), owner |-> p]}
    /\ pc' = [pc EXCEPT ![p] = "image"]
    /\ UNCHANGED <<builder, result, ws, fs, runVars, wsVars, cmdVars>>

\* file_lock: the closure returned; unlock and hand its result to the caller
file_lock_release(p) ==
    /\ pc[p] = "release"
    /\ locks' = {l \in locks : l.owner # p}
    /\ Return(p, result[p])
    /\ UNCHANGED <<fs, installRuns, primeRuns, wsVars, cmdVars>>

bodyFrame == <<builder, ws, locks, wsVars, cmdVars>>

resolve_image_always(p) ==
    /\ pc[p] = "image"
    /\ \/ /\ pc' = [pc EXCEPT ![p] = "headers"]
          /\ UNCHANGED result
       \/ closure_return(p, "ErrImage")
    /\ UNCHANGED <<bodyFrame, fs, runVars>>

\* init, lines 98-102: the explicit image, or SandboxImage::remote(DEFAULT)?
resolve_image(p) ==
    /\ pc[p] = "image"
    /\ \/ /\ pc' = [pc EXCEPT ![p] = "headers"]
          /\ UNCHANGED result
       \/ /\ builder[p].sandbox_image = "None"
          /\ closure_return(p, "ErrImage")
    /\ UNCHANGED <<bodyFrame, fs, runVars>>

\* init, lines 104-105: self.user_agent.parse()?
parse_user_agent(p) ==
    /\ pc[p] = "headers"
    /\ IF builder[p].user_agent = "valid"
       THEN /\ pc' = [pc EXCEPT ![p] = "http"]
            /\ UNCHANGED result
       ELSE closure_return(p, "ErrHeader")
    /\ UNCHANGED <<bodyFrame, fs, runVars>>

\* init, lines 106-108: ClientBuilder::build()?
build_http(p) ==
    /\ pc[p] = "http"
    /\ \/ /\ pc' = [pc EXCEPT ![p] = "install"]
          /\ UNCHANGED result
       \/ closure_return(p, "ErrHttp")
    /\ UNCHANGED <<bodyFrame, fs, runVars>>

\* tools::install as it acts on the workspace: helper tools under cargo-home
\* and the main toolchain under the toolchain root
Installed(files, path) ==
    create_dir_all(create_dir_all(files, cargo_home(path)),
                   Join(rustup_home(path), <<"toolchains", "stable">>))

install_tools_once(p) ==
    /\ pc[p] = "install"
    /\ IF Normalize(cargo_home(builder[p].path)) \in fs
       THEN /\ closure_return(p, "Ok")
            /\ UNCHANGED <<fs, installRes, installRuns>>
       ELSE /\ installRuns' = installRuns + 1
            /\ installRes' = [installRes EXCEPT ![p] = "ok"]
            /\ fs' = Installed(fs, builder[p].path)
            /\ pc' = [pc EXCEPT ![p] = "prime"]
            /\ UNCHANGED result
    /\ UNCHANGED <<bodyFrame, primeRes, primeRuns>>

install_tools_unchecked(p) ==
    /\ pc[p] = "install"
    /\ installRuns' = installRuns + 1
    /\ \/ /\ installRes' = [installRes EXCEPT ![p] = "ok"]
          /\ fs' = Installed(fs, builder[p].path)
       \/ /\ installRes' = [installRes EXCEPT ![p] = "failed"]
          /\ UNCHANGED fs
    /\ pc' = [pc EXCEPT ![p] = "prime"]
    /\ UNCHANGED <<result, bodyFrame, primeRes, primeRuns>>

install_tools_rollback(p) ==
    /\ pc[p] = "install"
    /\ installRuns' = installRuns + 1
    /\ \/ /\ installRes' = [installRes EXCEPT ![p] = "ok"]
          /\ fs' = Installed(fs, builder[p].path)
          /\ pc' = [pc EXCEPT ![p] = "prime"]
          /\ UNCHANGED result
       \/ /\ installRes' = [installRes EXCEPT ![p] = "failed"]
          /\ fs' = remove_dir_all(fs, cargo_home(builder[p].path))
          /\ closure_return(p, "ErrInstall")
    /\ UNCHANGED <<bodyFrame, primeRes, primeRuns>>

\* Workspace::init, line 215: tools::install(self, fast_init)?
install_tools(p) ==
    /\ pc[p] = "install"
    /\ installRuns' = installRuns + 1
    /\ \/ /\ installRes' = [installRes EXCEPT ![p] = "ok"]
          /\ fs' = Installed(fs, builder[p].path)
          /\ pc' = [pc EXCEPT ![p] = "prime"]
          /\ UNCHANGED result
       \/ /\ installRes' = [installRes EXCEPT ![p] = "failed"]
          /\ \E partial \in BOOLEAN :
                fs' = IF partial THEN create_dir_all(fs, cargo_home(builder[p].path)) ELSE fs
          /\ closure_return(p, "ErrInstall")
    /\ UNCHANGED <<bodyFrame, primeRes, primeRuns>>

\* what Workspace::init returns when the priming command ended with outcome o
registry_result_propagated(o) == IF o = "ok" THEN "Ok" ELSE "ErrPrime"

registry_result(o) == "Ok"

\* Workspace::init, line 217, and update_cratesio_registry: run the priming
\* command once and drop its result; the closure then returns Ok(ws)
update_cratesio_registry(p) ==
    /\ pc[p] = "prime"
    /\ primeRuns' = primeRuns + 1
    /\ \E o \in PrimeOutcomes :
          /\ primeRes' = [primeRes EXCEPT ![p] = o]
          /\ fs' = IF o = "ok"
                   THEN create_dir_all(fs, Join(cargo_home(builder[p].path), <<"registry">>))
                   ELSE fs
          /\ closure_return(p, registry_result(o))
    /\ UNCHANGED <<bodyFrame, installRes, installRuns>>

default_command_timeout_disabled(w) == None

\* Workspace::default_command_timeout
default_command_timeout(w) == w.command_timeout

\* Workspace::default_command_no_output_timeout
default_command_no_output_timeout(w) == w.command_no_output_timeout

\* Command::new: both timeouts start as the defaults of the Workspace
Command_new(w, kind) ==
    [kind |-> kind,
     timeout |-> default_command_timeout(w),
     no_output_timeout |-> default_command_no_output_timeout(w)]

\* Command::no_output_timeout: override the no-output timeout
no_output_timeout(c, t) == [c EXCEPT !.no_output_timeout = t]

update_cratesio_registry_command_inherit(w) == Command_new(w, "prime")

\* update_cratesio_registry, lines 226-229: the priming command
update_cratesio_registry_command(w) == no_output_timeout(Command_new(w, "prime"), None)

\* the priming outcome as init sees the result of Command::run
PrimeResult(o) ==
    CASE o = "Ok" -> "ok"
      [] o = "ExitError" -> "exit_nonzero"
      [] o = "SpawnError" -> "spawn_failed"
      [] o = "Timeout" -> "timeout"
      [] OTHER -> "no_output_timeout"

\* update_cratesio_registry with the run of its command followed step by
\* step: build the command and call run()
update_cratesio_registry_run(p) ==
    /\ pc[p] = "prime"
    /\ cstate \in {"idle", "returned"}
    /\ cmd' = update_cratesio_registry_command(workspace_of(builder[p]))
    /\ cstate' = "created"
    /\ now' = 0
    /\ last' = 0
    /\ procAlive' = FALSE
    /\ outcome' = "none"
    /\ pc' = [pc EXCEPT ![p] = "priming"]
    /\ UNCHANGED <<builder, result, ws, locks, fs, runVars, wsVars, asked>>

\* run() returned: drop its result; the closure then returns Ok(ws)
update_cratesio_registry_done(p) ==
    /\ pc[p] = "priming"
    /\ cstate = "returned"
    /\ primeRuns' = primeRuns + 1
    /\ primeRes' = [primeRes EXCEPT ![p] = PrimeResult(outcome)]
    /\ fs' = IF outcome = "Ok"
             THEN create_dir_all(fs, Join(cargo_home(builder[p].path), <<"registry">>))
             ELSE fs
    /\ closure_return(p, registry_result(PrimeResult(outcome)))
    /\ UNCHANGED <<bodyFrame, installRes, installRuns>>

----------------------------------------------------------------------------
(* Command::run: the target process and the supervisor of the two timeouts *)

engineFrame == <<pc, builder, result, ws, locks, fs, runVars, wsVars, asked, cmd>>

\* the hard deadline counts from the start of the command
HardDue == cmd.timeout.some /\ now >= cmd.timeout.d

\* the no-output deadline counts from the last line of output
IdleDue == cmd.no_output_timeout.some /\ now - last >= cmd.no_output_timeout.d

\* spawn the host process or the container
spawn ==
    /\ cstate = "created"
    /\ \/ /\ cstate' = "running"
          /\ procAlive' = TRUE
          /\ UNCHANGED outcome
       \/ /\ cstate' = "returned"
          /\ outcome' = "SpawnError"
          /\ UNCHANGED procAlive
    /\ UNCHANGED <<engineFrame, now, last>>

\* a minute passes; the supervisor sees a deadline before more time passes
Tick ==
    /\ cstate = "running"
    /\ ~HardDue
    /\ ~IdleDue
    /\ now < MaxTime
    /\ now' = now + 1
    /\ UNCHANGED <<engineFrame, cstate, last, procAlive, outcome>>

\* the target writes a line to stdout or stderr
target_line ==
    /\ cstate = "running"
    /\ last' = now
    /\ UNCHANGED <<engineFrame, cstate, now, procAlive, outcome>>

\* the target exits by itself
target_exit ==
    /\ cstate = "running"
    /\ procAlive' = FALSE
    /\ cstate' = "exited"
    /\ \E o \in {"Ok", "ExitError"} : outcome' = o
    /\ UNCHANGED <<engineFrame, now, last>>

\* the supervisor finds the hard deadline reached
hard_expire ==
    /\ cstate = "running"
    /\ HardDue
    /\ cstate' = "killing"
    /\ outcome' = "Timeout"
    /\ UNCHANGED <<engineFrame, now, last, procAlive>>

\* the supervisor finds the no-output deadline reached
idle_expire ==
    /\ cstate = "running"
    /\ IdleDue
    /\ cstate' = "killing"
    /\ outcome' = "NoOutputTimeout"
    /\ UNCHANGED <<engineFrame, now, last, procAlive>>

\* force-terminate the process or container
kill ==
    /\ cstate = "killing"
    /\ procAlive
    /\ procAlive' = FALSE
    /\ UNCHANGED <<engineFrame, cstate, now, last, outcome>>

\* teardown is over: run() returns
run_return ==
    /\ cstate \in {"exited", "killing"}
    /\ ~procAlive
    /\ cstate' = "returned"
    /\ UNCHANGED <<engineFrame, now, last, procAlive, outcome>>

SupervisorStep == spawn \/ Tick \/ hard_expire \/ idle_expire \/ kill \/ run_return

TargetStep == target_line \/ target_exit

----------------------------------------------------------------------------
(* Workspace *)

initFrame == <<pc, builder, result, ws, locks, runVars>>

\* a BuildDirectory: its name and its clone of the Workspace
BuildDirectory(w, name) == [name |-> name, inner |-> w]

\* Workspace::build_dir: a BuildDirectory handle for name, no I/O
build_dir(p, name) ==
    /\ ws[p] # NoWs
    /\ dirs' = dirs \cup {BuildDirectory(ws[p], name)}
    /\ UNCHANGED <<initFrame, fs, listed, purgeRes, cmdVars>>

\* first filesystem use of a BuildDirectory creates <root>/builds/<name>
build_dir_use(h) ==
    /\ h \in dirs
    /\ fs' = create_dir_all(fs, BuildDirPath(h.inner.path, h.name))
    /\ UNCHANGED <<initFrame, wsVars, cmdVars>>

purge_all_build_dirs_lenient(p) ==
    /\ ws[p] # NoWs
    /\ fs' = remove_dir_all(fs, builds_dir(ws[p].path))
    /\ purgeRes' = "Ok"
    /\ UNCHANGED <<initFrame, dirs, listed, cmdVars>>

\* Workspace::purge_all_build_dirs
purge_all_build_dirs(p) ==
    /\ ws[p] # NoWs
    /\ IF Normalize(builds_dir(ws[p].path)) \in fs
       THEN /\ fs' = remove_dir_all(fs, builds_dir(ws[p].path))
            /\ purgeRes' = "Ok"
       ELSE /\ purgeRes' = "Err"
            /\ UNCHANGED fs
    /\ UNCHANGED <<initFrame, dirs, listed, cmdVars>>

\* Workspace::installed_toolchains
installed_toolchains(p) ==
    /\ ws[p] # NoWs
    /\ listed' = list_installed(fs, rustup_home(ws[p].path))
    /\ UNCHANGED <<initFrame, fs, dirs, purgeRes, cmdVars>>

\* a caller runs a Command created from its Workspace
command_run(p) ==
    /\ ws[p] # NoWs
    /\ cstate \in {"idle", "returned"}
    /\ cmd' = Command_new(ws[p], "user")
    /\ cstate' = "created"
    /\ now' = 0
    /\ last' = 0
    /\ procAlive' = FALSE
    /\ outcome' = "none"
    /\ UNCHANGED <<initFrame, fs, wsVars, asked>>

----------------------------------------------------------------------------

\* a caller with the default image and timeouts
InitStep(p) ==
    \/ \E ua \in {"valid", "invalid"} : new(p, ua)
    \/ init_create_dir(p)
    \/ file_lock_open(p)
    \/ file_lock_acquire(p)
    \/ resolve_image(p)
    \/ parse_user_agent(p)
    \/ build_http(p)
    \/ install_tools(p)
    \/ update_cratesio_registry(p)
    \/ file_lock_release(p)

WorkspaceStep(p) ==
    \/ \E name \in BuildNames : build_dir(p, name)
    \/ purge_all_build_dirs(p)
    \/ installed_toolchains(p)

Next ==
    \/ \E p \in Procs : InitStep(p)
    \/ \E p \in Procs : WorkspaceStep(p)
    \/ \E h \in dirs : build_dir_use(h)

Spec == Init /\ [][Next]_vars

\* every caller is a thread of its own that keeps running; a blocked
\* lock_exclusive is granted once the lock stays free
Fairness == \A p \in Procs : WF_vars(InitStep(p))

\* the initializers on their own: the Workspace operations read and write
\* none of pc, builder, result, locks
InitNext == \E p \in Procs : InitStep(p)

FairSpec == Init /\ [][InitNext]_vars /\ Fairness

\* one caller that configures its builder, with the priming command and the
\* commands it runs afterwards followed step by step
Caller == 1

ConfigStep(p) ==
    \/ sandbox_image(p)
    \/ \E t \in TimeoutChoices : command_timeout(p, t)
    \/ \E t \in TimeoutChoices : command_no_output_timeout(p, t)

InitRun(p) ==
    \/ init_create_dir(p)
    \/ file_lock_open(p)
    \/ file_lock_acquire(p)
    \/ resolve_image(p)
    \/ parse_user_agent(p)
    \/ build_http(p)
    \/ install_tools(p)
    \/ update_cratesio_registry_run(p)
    \/ update_cratesio_registry_done(p)
    \/ file_lock_release(p)

CmdNext ==
    \/ \E ua \in {"valid", "invalid"} : new(Caller, ua)
    \/ ConfigStep(Caller)
    \/ InitRun(Caller)
    \/ SupervisorStep
    \/ TargetStep
    \/ build_dir(Caller, <<"a">>)
    \/ command_run(Caller)

\* init runs on its caller's thread, the supervisor and the clock keep
\* going; nothing makes the target write or exit
CmdFairness == WF_vars(InitRun(Caller)) /\ WF_vars(SupervisorStep)

CmdSpec == Init /\ [][CmdNext]_vars /\ CmdFairness

----------------------------------------------------------------------------
(* Helpers of the properties *)

\* p is inside the section guarded by file_lock
InLockedSection(p) ==
    pc[p] \in {"image", "headers", "http", "install", "prime", "priming", "release"}

\* p's init call returns in this step
Returns(p) == pc[p] # "done" /\ pc'[p] = "done"

\* what exists at or below d
Subtree(files, d) == {q \in files : q = d \/ Inside(q, d)}

\* a purge_all_build_dirs call takes effect in this step: no other operation
\* removes the builds root or sets the purge result
BuildsRoot == Normalize(builds_dir(Root))

ToolchainRoot == rustup_home(Root)

PurgeStep ==
    \/ purgeRes' # purgeRes
    \/ BuildsRoot \in fs /\ BuildsRoot \notin fs'

\* the directories a purge has to leave alone
KeptPaths ==
    {Normalize(d) : d \in {LockPath(Root, 1), cargo_home(Root), rustup_home(Root), cache_dir(Root)}}

BodyErrors == {"ErrImage", "ErrHeader", "ErrHttp", "ErrInstall"}

\* what the caller asked of the builder: the last value passed to a setter,
\* the documented default when the setter was never called
AskedTimeout(p) == IF asked[p].hard THEN asked[p].hard_value ELSE Some(15)

AskedNoOutputTimeout(p) == IF asked[p].nooutput THEN asked[p].nooutput_value ELSE None

\* a command is being built or run, or has run
HasCommand == cmd.kind # "none"

----------------------------------------------------------------------------
(* C1 *)
\* C1: of the init calls on one root, at most one is inside the section
\* guarded by the lock on <root>/lock at any time; in particular no two of
\* them are installing tools or priming the registry at once.
C1_MutualExclusion ==
    \A p, q \in Procs :
        (p # q /\ builder[p].path = builder[q].path)
            => ~(InLockedSection(p) /\ InLockedSection(q))

\* one caller installs the tools while another is blocked on the same lock
C1_Witness ==
    \E p, q \in Procs :
        /\ p # q
        /\ pc[p] = "install"
        /\ pc[q] = "acquire"
        /\ builder[p].path = builder[q].path

----------------------------------------------------------------------------
----------------------------------------------------------------------------
(* C3 *)
\* C3: whenever an init call returns a Workspace, that call's install has
\* succeeded and its priming has been attempted, both inside the lock the
\* caller still holds, and no other caller is installing or priming on the
\* root at that moment.
C3_ReturnedWorkspaceIsInitialised ==
    [][\A p \in Procs :
          (Returns(p) /\ ws'[p] # NoWs)
              => /\ installRes[p] = "ok"
                 /\ primeRes[p] # "none"
                 /\ Holds(p)
                 /\ \A q \in Procs \ {p} : pc[q] \notin {"install", "prime"}]_vars

\* a caller owns a Workspace while another initializer is installing tools
C3_Witness ==
    \E p, q \in Procs :
        /\ pc[p] = "done"
        /\ ws[p] # NoWs
        /\ pc[q] = "install"

----------------------------------------------------------------------------
(* C4 *)
\* C4: the init lock is released on every exit path of the locked section
\* (a caller that has returned, with Ok or any error, holds no lock), and
\* under fair scheduling every caller blocked on the lock eventually
\* acquires it and returns.
C4_LockAlwaysReleased ==
    /\ [](\A p \in Procs : pc[p] = "done" => ~Holds(p))
    /\ \A p \in Procs : (pc[p] = "acquire") ~> (pc[p] = "done")


\* an initializer failed inside the locked section and returned, and another
\* one holds the lock after it
C4_Witness ==
    \E p, q \in Procs :
        /\ pc[p] = "done"
        /\ result[p] \in BodyErrors
        /\ Holds(q)

----------------------------------------------------------------------------
(* C5 *)
\* C5: once the priming command has run, whatever its outcome, the closure's
\* result is Ok and init returns a Workspace; the outcome of the priming
\* command is never the result of init, and the command is run at most once
\* per init call that got past the install.
C5_PrimingOutcomeIgnored ==
    /\ [](\A p \in Procs :
            primeRes[p] # "none"
                => (pc[p] = "release" /\ result[p] = "Ok" /\ installRes[p] = "ok"))
    /\ [](primeRuns <= Cardinality({p \in Procs : pc[p] \in {"release", "done"}}))
    /\ [][\A p \in Procs :
            (Returns(p) /\ installRes[p] = "ok")
                => (result'[p] = "Ok" /\ ws'[p] # NoWs)]_vars

\* the priming command timed out and the closure still ended Ok
C5_Witness ==
    \E p \in Procs :
        /\ primeRes[p] = "timeout"
        /\ pc[p] = "release"
        /\ result[p] = "Ok"

----------------------------------------------------------------------------
(* C6 *)
\* C6 (as claimed): an init whose image resolution failed still yields a
\* Workspace from which host-mode commands can be issued.
C6_WorkspaceDespiteImageFailure ==
    \A p \in Procs :
        (pc[p] = "done" /\ result[p] = "ErrImage") => ws[p] # NoWs

\* C6 (amended): a failed resolution of the default image is the error init
\* returns, and that call yields no Workspace; only the default image is
\* resolved by init, an explicitly set image is taken as it is.
C6_ImageFailureFailsInit ==
    \A p \in Procs :
        /\ (pc[p] = "done" /\ result[p] = "ErrImage") => ws[p] = NoWs
        /\ (pc[p] = "release" /\ result[p] = "ErrImage")
               => builder[p].sandbox_image = "None"

\* an init call returned the image error
C6_Witness ==
    \E p \in Procs : pc[p] = "done" /\ result[p] = "ErrImage"

----------------------------------------------------------------------------
(* C7 *)
\* C7: no step of init removes anything from the filesystem, and an init
\* that fails after the root was created returns with the root in place and
\* without the lock, so that a later init can take the lock and succeed.
C7_FailedInitKeepsState ==
    [][\A p \in Procs :
          /\ pc'[p] # pc[p] => fs \subseteq fs'
          /\ (Returns(p) /\ result'[p] \in BodyErrors \cup {"ErrLock"})
                => /\ Normalize(Root) \in fs'
                   /\ \A l \in locks' : l.owner # p]_vars

\* an init failed in the install and returned, and the locked section of
\* another init then ran on the same root, primed the registry and ended Ok
C7_Witness ==
    \E p, q \in Procs :
        /\ pc[p] = "done"
        /\ result[p] = "ErrInstall"
        /\ pc[q] = "release"
        /\ result[q] = "Ok"
        /\ primeRuns = 1

----------------------------------------------------------------------------
(* C8 *)
\* C8: the path of every BuildDirectory derived from the Workspace lies
\* strictly inside <root>/builds/.
C8_BuildDirInsideBuilds ==
    \A h \in dirs :
        Inside(Normalize(BuildDirPath(h.inner.path, h.name)),
               Normalize(builds_dir(h.inner.path)))

----------------------------------------------------------------------------
(* C9 *)
\* C9: a bulk purge changes nothing outside the builds root: the toolchain
\* listing is the same before and after it, and the lock file, cargo-home,
\* the toolchain root and the cache directory are as they were.
C9_PurgeFrame ==
    [][PurgeStep
          => /\ list_installed(fs', ToolchainRoot) = list_installed(fs, ToolchainRoot)
             /\ \A d \in KeptPaths :
                   Subtree(fs', d) = Subtree(fs, d)]_vars

\* a purge removed the builds root and the installed toolchain is still listed
C9_Witness ==
    /\ purgeRes = "Ok"
    /\ BuildsRoot \notin fs
    /\ list_installed(fs, ToolchainRoot) = {"stable"}
    /\ listed = {"stable"}

----------------------------------------------------------------------------
(* C10 *)
\* C10: once an init on the root has returned Ok, the root directory exists,
\* whatever init, build_dir, purge and listing calls follow.
C10_RootExistsAfterInit ==
    \A p \in Procs : ws[p] # NoWs => Normalize(ws[p].path) \in fs

\* a Workspace is owned, a build directory was used and then purged
C10_Witness ==
    \E p \in Procs :
        /\ ws[p] # NoWs
        /\ purgeRes = "Ok"
        /\ dirs # {}

----------------------------------------------------------------------------
(* C14 *)
\* the steps of one init call, in the order of the code
InitOrder ==
    <<"idle", "builder", "open_lock", "acquire", "image", "headers", "http",
      "install", "prime", "release", "done">>

Position(v) == CHOOSE i \in 1..Len(InitOrder) : InitOrder[i] = v

\* C14: an init call takes its steps in one fixed order: the root directory
\* is created before the lock is taken and outside it; then, holding the lock,
\* the image is resolved, the HTTP client built, the tools installed, the
\* registry primed. A step runs only when the one before it succeeded (a
\* failure goes straight to the end of the locked section, never on to the
\* next step; the priming runs only after a successful install), and every
\* step after the root creation runs while the caller holds the lock.
C14_InitStepOrder ==
    /\ [](\A p \in Procs :
            /\ pc[p] \in {"open_lock", "acquire"} => (Normalize(Root) \in fs /\ ~Holds(p))
            /\ pc[p] \in {"idle", "builder", "done"} => ~Holds(p)
            /\ InLockedSection(p) => (Holds(p) /\ Normalize(Root) \in fs))
    /\ [][\A p \in Procs :
            /\ pc'[p] # pc[p]
                  => \/ Position(pc'[p]) = Position(pc[p]) + 1
                     \/ InLockedSection(p) /\ pc'[p] = "release" /\ result'[p] # "Ok"
                     \/ pc[p] \in {"builder", "open_lock"} /\ pc'[p] = "done" /\ result'[p] # "Ok"
            /\ (pc[p] # "prime" /\ pc'[p] = "prime") => installRes'[p] = "ok"
            /\ (pc[p] = "prime" /\ pc'[p] # "prime") => primeRuns' = primeRuns + 1]_vars
    /\ [][/\ installRuns' # installRuns
                => \E p \in Procs : pc[p] = "install" /\ pc'[p] # "install" /\ Holds(p)
          /\ primeRuns' # primeRuns
                => \E p \in Procs : pc[p] = "prime" /\ installRes[p] = "ok" /\ Holds(p)]_vars

\* a caller holding the lock is about to prime the registry after its install
\* succeeded, while another caller has created the root and waits for the lock
C14_Witness ==
    \E p, q \in Procs :
        /\ pc[p] = "prime"
        /\ installRes[p] = "ok"
        /\ Holds(p)
        /\ pc[q] = "acquire"

----------------------------------------------------------------------------
(* C17 *)
\* C17: a bulk purge succeeds only when the builds root exists, and then
\* removes it and everything below it and nothing else; when the builds root
\* is absent it returns an error and leaves the filesystem as it was, so a
\* purge that follows a successful purge with the builds root still absent
\* fails.
C17_PurgeNeedsBuildsRoot ==
    [][/\ (PurgeStep /\ purgeRes' = "Ok")
             => (BuildsRoot \in fs /\ fs' = fs \ Subtree(fs, BuildsRoot))
       /\ (PurgeStep /\ purgeRes' = "Err")
             => (BuildsRoot \notin fs /\ fs' = fs)
       /\ (PurgeStep /\ purgeRes = "Ok" /\ BuildsRoot \notin fs)
             => purgeRes' = "Err"]_vars

\* a purge failed on a workspace whose builds root is absent although a
\* BuildDirectory handle exists
C17_Witness ==
    /\ purgeRes = "Err"
    /\ BuildsRoot \notin fs
    /\ dirs # {}
    /\ \E p \in Procs : ws[p] # NoWs

----------------------------------------------------------------------------
(* C11 *)
\* C11: a Command whose Workspace was configured with the hard timeout T
\* carries T; while it runs, no more than T has passed, whatever it writes
\* and whatever its no-output timeout; once T has passed, a target that has
\* not exited and whose no-output deadline is not reached ends with Timeout
\* only; Timeout is reported at T, the process is terminated without more
\* time passing and before run() returns; and a started run() does return.
C11_HardTimeoutEndsCommand ==
    /\ [](HasCommand /\ AskedTimeout(Caller).some
            => /\ cmd.timeout = AskedTimeout(Caller)
               /\ now <= AskedTimeout(Caller).d
               /\ outcome = "Timeout" => now = AskedTimeout(Caller).d
               /\ (cstate = "returned" /\ outcome = "Timeout") => ~procAlive)
    /\ [][/\ (cstate = "running" /\ HardDue /\ ~IdleDue /\ cstate' # "running" /\ procAlive')
               => (cstate' = "killing" /\ outcome' = "Timeout")
          /\ cstate = "killing"
               => /\ now' = now
                  /\ outcome' = outcome
                  /\ procAlive' => procAlive
                  /\ \/ cstate' = "killing"
                     \/ cstate' = "returned" /\ ~procAlive]_vars
    /\ (cstate = "running" /\ cmd.timeout.some) ~> (cstate = "returned")

\* a command that kept writing was ended by the hard timeout, with a
\* no-output timeout set
C11_Witness ==
    /\ cstate = "returned"
    /\ outcome = "Timeout"
    /\ cmd.kind = "user"
    /\ cmd.no_output_timeout.some
    /\ last = now

----------------------------------------------------------------------------
(* C12 *)
\* C12: a Command carries the no-output timeout T' its Workspace was
\* configured with; the no-output timeout fires only when exactly T' has
\* passed since the last line (every line moves the deadline, so a target
\* that writes more often than every T' is never cut off by it), and it
\* fires whether or not a hard timeout is set and still pending; of the two
\* errors the one reported is that of a deadline that was reached, the other
\* deadline not having passed before.
C12_NoOutputDeadlineIsRolling ==
    /\ [](cmd.kind = "user"
            => /\ cmd.no_output_timeout = AskedNoOutputTimeout(Caller)
               /\ cmd.no_output_timeout.some => now - last <= cmd.no_output_timeout.d
               /\ outcome = "NoOutputTimeout"
                     => /\ cmd.no_output_timeout.some
                        /\ now - last = cmd.no_output_timeout.d
                        /\ cmd.timeout.some => now <= cmd.timeout.d
               /\ outcome = "Timeout"
                     => /\ cmd.timeout.some
                        /\ now = cmd.timeout.d)
    /\ [][/\ last' # last => (last' = now \/ cstate' = "created")
          /\ (cstate = "running" /\ IdleDue /\ ~HardDue /\ cstate' # "running" /\ procAlive')
               => (cstate' = "killing" /\ outcome' = "NoOutputTimeout")
          /\ (cstate = "running" /\ ~IdleDue /\ ~HardDue)
               => outcome' \notin {"Timeout", "NoOutputTimeout"}]_vars
    /\ (cstate = "running" /\ IdleDue) ~> (cstate # "running" \/ ~IdleDue)

\* the target wrote once and then kept silent: the no-output timeout ended
\* the command with a larger hard timeout pending
C12_Witness ==
    /\ cstate = "returned"
    /\ outcome = "NoOutputTimeout"
    /\ cmd.kind = "user"
    /\ last = 1
    /\ cmd.timeout.some
    /\ cmd.timeout.d > now

----------------------------------------------------------------------------
(* C13 *)
\* C13: the builder and the Workspace init returns hold the timeouts the
\* caller asked for (15 minutes and disabled when never asked), and these
\* are what the accessors give out; a setter changes one of the two only; a Workspace is
\* never modified once init returned it, and every BuildDirectory holds a
\* Workspace equal to that of the caller it was derived from.
C13_DefaultsAreBuildersFinalValues ==
    /\ [](\A p \in Procs :
            /\ pc[p] \notin {"idle", "done"}
                  => /\ builder[p].command_timeout = AskedTimeout(p)
                     /\ builder[p].command_no_output_timeout = AskedNoOutputTimeout(p)
            /\ ws[p] # NoWs
                  => /\ default_command_timeout(ws[p]) = AskedTimeout(p)
                     /\ default_command_no_output_timeout(ws[p]) = AskedNoOutputTimeout(p)
                     /\ ws[p].path = Root)
    /\ [](\A h \in dirs : h.inner = ws[Caller])
    /\ [][\A p \in Procs :
            /\ ws[p] # NoWs => ws'[p] = ws[p]
            /\ (pc[p] = "builder" /\ pc'[p] = "builder")
                  => \/ builder'[p].command_timeout = builder[p].command_timeout
                     \/ builder'[p].command_no_output_timeout = builder[p].command_no_output_timeout]_vars

\* a Workspace with the hard timeout disabled and a no-output timeout set,
\* built with a custom image, and a BuildDirectory derived from it
C13_Witness ==
    /\ ws[Caller] # NoWs
    /\ asked[Caller].hard
    /\ asked[Caller].hard_value = None
    /\ asked[Caller].nooutput_value = Some(1)
    /\ ws[Caller].sandbox_image = "custom"
    /\ dirs # {}

----------------------------------------------------------------------------
(* C15 *)
\* C15: with a hard timeout configured, an init that reached the priming
\* step returns Ok and holds no lock in the end, whether or not the priming
\* command ever writes or exits; with the hard timeout disabled no timeout
\* ends the priming command.
C15_InitEndsDespiteHangingPriming ==
    /\ (pc[Caller] \in {"prime", "priming"} /\ builder[Caller].command_timeout.some)
          ~> (pc[Caller] = "done" /\ result[Caller] = "Ok" /\ ~Holds(Caller) /\ locks = {})
    /\ []((pc[Caller] = "priming" /\ builder[Caller].command_timeout = None)
            => outcome \notin {"Timeout", "NoOutputTimeout"})

\* the priming command neither wrote nor exited and was ended by the hard
\* timeout; the closure is about to return Ok
C15_Witness ==
    /\ pc[Caller] = "release"
    /\ result[Caller] = "Ok"
    /\ primeRes[Caller] = "timeout"
    /\ last = 0
    /\ now = builder[Caller].command_timeout.d

----------------------------------------------------------------------------
(* C16 *)
\* C16: whatever no-output timeout the builder was given, the priming
\* command has none and has the hard timeout of the Workspace; it never ends
\* with the no-output-timeout error.
C16_PrimingHasNoOutputTimeoutDisabled ==
    \A p \in Procs :
        /\ pc[p] = "priming"
              => /\ cmd.kind = "prime"
                 /\ cmd.no_output_timeout = None
                 /\ cmd.timeout = builder[p].command_timeout
                 /\ outcome # "NoOutputTimeout"
        /\ primeRes[p] \in PrimeOutcomes \cup {"none"}

\* the priming command was silent for longer than the no-output timeout the
\* Workspace was configured with
C16_Witness ==
    /\ pc[Caller] = "priming"
    /\ cstate = "returned"
    /\ builder[Caller].command_no_output_timeout = Some(1)
    /\ now - last > 1

====
